---- MODULE Spec2Model ----
(***************************************************************************)
(* Model of tfx/dsl/component/experimental/container_components.py:        *)
(* the factory create_container_component, which builds a component class  *)
(* and its ComponentSpec class from descriptor lists, and the __init__ of  *)
(* the generated class, which merges the default channels with the         *)
(* caller's keyword arguments.                                             *)
(*                                                                         *)
(* Python objects with identity (channels and the artifact each wraps)     *)
(* live in `heap`; a reference is a record [owner, id].  Dictionaries are  *)
(* functions over a finite set of keys.  None is the empty tuple and a     *)
(* present value x is <<x>>.  Identifier strings that the code may alter   *)
(* (the component name) are sequences of characters.                       *)
(***************************************************************************)
EXTENDS Integers, Sequences, FiniteSets, TLC

VARIABLES call, components, instances, heap

vars == <<call, components, instances, heap>>

----------------------------------------------------------------------------
(* Universes the inputs are drawn from, and the bounds.                    *)

Names == {"data", "model", "instance_name"}
ArtifactTypes == {"Dataset", "Model"}
ParameterTypes == {"int"}
ComponentNames == {<<>>, <<"T", "-", "1">>}
Images == {"img", "gcr.io/my-project/my-trainer"}
Commands == {<<"run">>}

\* Descriptors over the three lists of one factory call (specification Spec).
MaxSpecs == 2
\* Descriptors over the three lists of a repeated factory call (SpecCalls).
MaxCallSpecs == 1
\* Factory calls and instantiations in SpecCalls.
MaxCalls == 2
MaxInstances == 2

----------------------------------------------------------------------------
(* Python values.                                                          *)

None == <<>>
Some(x) == <<x>>

\* `x or []` for a list argument that may be None.
OrEmptyList(l) == IF l = None THEN <<>> ELSE l[1]

EmptyDict == [x \in {} |-> TRUE]

\* d[k] = v
DictSet(d, k, v) == [x \in DOMAIN d \cup {k} |-> IF x = k THEN v ELSE d[x]]

\* d.update(e)
DictUpdate(d, e) ==
  [x \in DOMAIN d \cup DOMAIN e |-> IF x \in DOMAIN e THEN e[x] ELSE d[x]]

\* d without key k
DictWithout(d, k) == [x \in DOMAIN d \ {k} |-> d[x]]

\* A value the caller owns (a channel or a parameter value of the caller).
CallerValue == [owner |-> "caller", id |-> 1]

----------------------------------------------------------------------------
(* The descriptor classes.                                                 *)

InputSpec(name, type, optional) ==
  [name |-> name, type |-> type, optional |-> optional]

OutputSpec(name, type) == [name |-> name, type |-> type]

ChannelParameter(type) == [class |-> "ChannelParameter", type |-> type]

ExecutionParameter(type) == [class |-> "ExecutionParameter", type |-> type]

TemplatedExecutorContainerSpec(image, command) ==
  [image |-> image, command |-> command]

----------------------------------------------------------------------------
(* The factory.                                                            *)

\* A plausible bug: channels with empty artifacts are cached per type.
create_channel_cached(artifact_type, h) ==
  IF \E i \in 1..Len(h) : h[i].type = artifact_type
  THEN [heap |-> h,
        ref |-> [owner |-> "factory",
                 id |-> CHOOSE i \in 1..Len(h) : h[i].type = artifact_type]]
  ELSE [heap |-> Append(h, [type |-> artifact_type,
                            artifacts |-> <<[type |-> artifact_type]>>]),
        ref |-> [owner |-> "factory", id |-> Len(h) + 1]]

\* A new Channel object wrapping one new artifact_type() object.
create_channel_with_empty_artifact(artifact_type, h) ==
  [heap |-> Append(h, [type |-> artifact_type,
                       artifacts |-> <<[type |-> artifact_type]>>]),
   ref |-> [owner |-> "factory", id |-> Len(h) + 1]]

\* A plausible bug: the optional flag is not consulted.
InputStepAlwaysDefault(st, input_spec) ==
  LET ch == create_channel_with_empty_artifact(input_spec.type, st.heap)
  IN [st EXCEPT
        !.input_channel_parameters =
            DictSet(@, input_spec.name, ChannelParameter(input_spec.type)),
        !.default_input_channels = DictSet(@, input_spec.name, ch.ref),
        !.heap = ch.heap]

\* One iteration of `for input_spec in inputs or []`.
InputStep(st, input_spec) ==
  LET python_input_name == input_spec.name
      declared ==
        [st EXCEPT !.input_channel_parameters =
           DictSet(@, python_input_name, ChannelParameter(input_spec.type))]
      ch == create_channel_with_empty_artifact(input_spec.type, st.heap)
  IN IF input_spec.optional
     THEN [declared EXCEPT
             !.default_input_channels = DictSet(@, python_input_name, ch.ref),
             !.heap = ch.heap]
     ELSE declared

\* A plausible bug: the default output channel is kept from the first
\* descriptor of a name.
OutputStepKeepFirst(st, output_spec) ==
  LET ch == create_channel_with_empty_artifact(output_spec.type, st.heap)
  IN IF output_spec.name \in DOMAIN st.output_channels
     THEN [st EXCEPT
             !.output_channel_parameters =
                 DictSet(@, output_spec.name, ChannelParameter(output_spec.type))]
     ELSE [st EXCEPT
             !.output_channel_parameters =
                 DictSet(@, output_spec.name, ChannelParameter(output_spec.type)),
             !.output_channels = DictSet(@, output_spec.name, ch.ref),
             !.heap = ch.heap]

\* One iteration of `for output_spec in outputs or []`.
OutputStep(st, output_spec) ==
  LET python_output_name == output_spec.name
      ch == create_channel_with_empty_artifact(output_spec.type, st.heap)
  IN [st EXCEPT
        !.output_channel_parameters =
            DictSet(@, python_output_name, ChannelParameter(output_spec.type)),
        !.output_channels = DictSet(@, python_output_name, ch.ref),
        !.heap = ch.heap]

\* A plausible bug: an optional parameter is given a default channel as an
\* optional input is.
ParameterStepWithDefault(st, input_spec) ==
  LET ch == create_channel_with_empty_artifact(input_spec.type, st.heap)
      declared ==
        [st EXCEPT !.execution_parameters =
           DictSet(@, input_spec.name, ExecutionParameter(input_spec.type))]
  IN IF input_spec.optional
     THEN [declared EXCEPT
             !.default_input_channels = DictSet(@, input_spec.name, ch.ref),
             !.heap = ch.heap]
     ELSE declared

\* One iteration of `for input_spec in parameters or []`.
ParameterStep(st, input_spec) ==
  LET python_input_name == input_spec.name
  IN [st EXCEPT !.execution_parameters =
        DictSet(@, python_input_name, ExecutionParameter(input_spec.type))]

RECURSIVE InputLoop(_, _, _)
InputLoop(inputs, k, st) ==
  IF k > Len(inputs) THEN st
  ELSE InputLoop(inputs, k + 1, InputStep(st, inputs[k]))

RECURSIVE OutputLoop(_, _, _)
OutputLoop(outputs, k, st) ==
  IF k > Len(outputs) THEN st
  ELSE OutputLoop(outputs, k + 1, OutputStep(st, outputs[k]))

RECURSIVE ParameterLoop(_, _, _)
ParameterLoop(parameters, k, st) ==
  IF k > Len(parameters) THEN st
  ELSE ParameterLoop(parameters, k + 1, ParameterStep(st, parameters[k]))

DefaultComponentName == <<"C", "o", "m", "p", "o", "n", "e", "n", "t">>

SpecSuffix == <<"S", "p", "e", "c">>

\* A plausible bug: the fallback name is always used.
ComponentClassNameFallback(name) == DefaultComponentName

\* component_name = name or 'Component'; component_class_name = component_name
ComponentClassName(name) == IF name = <<>> THEN DefaultComponentName ELSE name

\* A plausible bug: the declaration maps of inputs and outputs are swapped.
tfx_component_spec_class_swapped(component_class_name, st) ==
  [name |-> component_class_name \o SpecSuffix,
   PARAMETERS |-> st.execution_parameters,
   INPUTS |-> st.output_channel_parameters,
   OUTPUTS |-> st.input_channel_parameters]

\* type(component_class_name + 'Spec', (ComponentSpec,), dict(...))
tfx_component_spec_class(component_class_name, st) ==
  [name |-> component_class_name \o SpecSuffix,
   PARAMETERS |-> st.execution_parameters,
   INPUTS |-> st.input_channel_parameters,
   OUTPUTS |-> st.output_channel_parameters]

\* The state the factory starts its loops with: five empty dictionaries.
FactoryLocals(h) ==
  [input_channel_parameters |-> EmptyDict,
   output_channel_parameters |-> EmptyDict,
   default_input_channels |-> EmptyDict,
   output_channels |-> EmptyDict,
   execution_parameters |-> EmptyDict,
   heap |-> h]

\* The factory: the generated class, with the two dictionaries its __init__
\* closes over, and the heap after the call.
create_container_component(name, inputs, outputs, parameters, image, command, h) ==
  LET st1 == InputLoop(OrEmptyList(inputs), 1, FactoryLocals(h))
      st2 == OutputLoop(OrEmptyList(outputs), 1, st1)
      st3 == ParameterLoop(OrEmptyList(parameters), 1, st2)
      component_class_name == ComponentClassName(name)
  IN [class |->
        [name |-> component_class_name,
         SPEC_CLASS |-> tfx_component_spec_class(component_class_name, st3),
         EXECUTOR_SPEC |-> TemplatedExecutorContainerSpec(image, command),
         default_input_channels |-> st3.default_input_channels,
         output_channels |-> st3.output_channels],
      heap |-> st3.heap]

----------------------------------------------------------------------------
(* The generated class's __init__.                                         *)

\* A plausible bug: the defaults are applied after the caller's arguments.
init_defaults_last(cls, kwargs, h) ==
  [instance_name |-> IF "instance_name" \in DOMAIN kwargs
                     THEN Some(kwargs["instance_name"]) ELSE None,
   arguments |-> DictUpdate(DictUpdate(DictWithout(kwargs, "instance_name"),
                                       cls.default_input_channels),
                            cls.output_channels),
   heap |-> h]

\* A plausible bug: instance_name is read with get and stays in kwargs.
init_without_pop(cls, kwargs, h) ==
  [instance_name |-> IF "instance_name" \in DOMAIN kwargs
                     THEN Some(kwargs["instance_name"]) ELSE None,
   arguments |-> DictUpdate(DictUpdate(DictUpdate(EmptyDict,
                                                  cls.default_input_channels),
                                       cls.output_channels),
                            kwargs),
   heap |-> h]

\* A plausible bug: the output defaults are not applied.
init_without_output_defaults(cls, kwargs, h) ==
  [instance_name |-> IF "instance_name" \in DOMAIN kwargs
                     THEN Some(kwargs["instance_name"]) ELSE None,
   arguments |-> DictUpdate(DictUpdate(EmptyDict, cls.default_input_channels),
                            DictWithout(kwargs, "instance_name")),
   heap |-> h]

RECURSIVE CopyChannels(_, _, _)
\* Every channel of dictionary d copied into a new heap object.
CopyChannels(d, todo, h) ==
  IF todo = {} THEN [dict |-> d, heap |-> h]
  ELSE LET n == CHOOSE x \in todo : TRUE
       IN CopyChannels(DictSet(d, n, [owner |-> "factory", id |-> Len(h) + 1]),
                       todo \ {n}, Append(h, h[d[n].id]))

\* A plausible bug: every instantiation gets its own copy of the defaults.
init_copying_defaults(cls, kwargs, h) ==
  LET defaults == DictUpdate(cls.default_input_channels, cls.output_channels)
      copied == CopyChannels(defaults, DOMAIN defaults, h)
  IN [instance_name |-> IF "instance_name" \in DOMAIN kwargs
                        THEN Some(kwargs["instance_name"]) ELSE None,
      arguments |-> DictUpdate(copied.dict, DictWithout(kwargs, "instance_name")),
      heap |-> copied.heap]

\* tfx_component_class_init up to the call of SPEC_CLASS: the popped
\* instance_name, the merged arguments, and the heap (no object is created).
tfx_component_class_init(cls, kwargs, h) ==
  [instance_name |-> IF "instance_name" \in DOMAIN kwargs
                     THEN Some(kwargs["instance_name"]) ELSE None,
   arguments |-> DictUpdate(DictUpdate(DictUpdate(EmptyDict,
                                                  cls.default_input_channels),
                                       cls.output_channels),
                            DictWithout(kwargs, "instance_name")),
   heap |-> h]

\* The names a specification class declares.
DeclaredNames(spec_class) ==
  DOMAIN spec_class.PARAMETERS \cup DOMAIN spec_class.INPUTS
    \cup DOMAIN spec_class.OUTPUTS

\* ComponentSpec.__init__(**arguments): TRUE when it returns, FALSE when it
\* raises.  Every declaration the factory makes is a required one, and the
\* framework requires an argument for each of them.
ComponentSpecAccepts(spec_class, arguments) ==
  DeclaredNames(spec_class) \subseteq DOMAIN arguments

----------------------------------------------------------------------------
(* The argument sets of the factory.                                       *)

InputSpecs ==
  {InputSpec(n, t, o) : n \in Names, t \in ArtifactTypes, o \in BOOLEAN}

OutputSpecs == {OutputSpec(n, t) : n \in Names, t \in ArtifactTypes}

ParameterSpecs ==
  {InputSpec(n, t, o) : n \in Names, t \in ParameterTypes, o \in BOOLEAN}

\* A list argument: a list of the length, or for length 0 also None.
ListArgs(S, len, nullable) ==
  {Some(l) : l \in [1..len -> S]}
    \cup (IF len = 0 /\ nullable THEN {None} ELSE {})

\* The ways to split at most n descriptors over the three lists.
Splits(n) ==
  {s \in (0..n) \X (0..n) \X (0..n) : s[1] + s[2] + s[3] <= n}

FactoryArgs(n, names, images, nullable) ==
  UNION {
    [name : names,
     inputs : ListArgs(InputSpecs, s[1], nullable),
     outputs : ListArgs(OutputSpecs, s[2], nullable),
     parameters : ListArgs(ParameterSpecs, s[3], nullable),
     image : images,
     command : Commands] : s \in Splits(n)}

\* The keyword arguments of an instantiation over the keys in S.
KwargSets(S) == UNION {[K -> {CallerValue}] : K \in SUBSET S}

----------------------------------------------------------------------------
(* The state machine.                                                      *)

Init ==
  /\ call \in FactoryArgs(MaxSpecs, ComponentNames, Images, TRUE)
  /\ components = <<>>
  /\ instances = <<>>
  /\ heap = <<>>

InitCalls ==
  /\ call \in FactoryArgs(MaxCallSpecs, {<<"T", "-", "1">>}, {"img"}, FALSE)
  /\ components = <<>>
  /\ instances = <<>>
  /\ heap = <<>>

\* The caller calls the factory with its arguments.
Create ==
  LET r == create_container_component(call.name, call.inputs, call.outputs,
                                      call.parameters, call.image,
                                      call.command, heap)
  IN /\ components' = Append(components, r.class)
     /\ heap' = r.heap
     /\ UNCHANGED <<call, instances>>

\* The caller instantiates generated class c with keyword arguments kwargs:
\* tfx_component_class_init, then SPEC_CLASS(**arguments), then, unless that
\* raised, BaseComponent.__init__(spec, instance_name).
Instantiate(c, kwargs) ==
  LET cls == components[c]
      r == tfx_component_class_init(cls, kwargs, heap)
      ok == ComponentSpecAccepts(cls.SPEC_CLASS, r.arguments)
  IN /\ instances' = Append(instances,
          [cls |-> c,
           kwargs |-> kwargs,
           arguments |-> r.arguments,
           constructed |-> ok,
           base_init |-> IF ok
                         THEN Some([spec |-> r.arguments,
                                    instance_name |-> r.instance_name])
                         ELSE None])
     /\ heap' = r.heap
     /\ UNCHANGED <<call, components>>

\* One factory call, then one instantiation with any keyword arguments.
Next ==
  \/ components = <<>> /\ Create
  \/ /\ components # <<>>
     /\ instances = <<>>
     /\ \E kwargs \in KwargSets(Names) : Instantiate(1, kwargs)

Spec == Init /\ [][Next]_vars

\* Repeated factory calls with the same arguments, and several
\* instantiations of each generated class over its declared names.
NextCalls ==
  \/ Len(components) < MaxCalls /\ Create
  \/ /\ Len(instances) < MaxInstances
     /\ \E c \in 1..Len(components) :
          \E kwargs \in KwargSets(DeclaredNames(components[c].SPEC_CLASS)) :
            Instantiate(c, kwargs)

SpecCalls == InitCalls /\ [][NextCalls]_vars

----------------------------------------------------------------------------
(* Vocabulary of the properties.                                           *)

Inputs == OrEmptyList(call.inputs)
Outputs == OrEmptyList(call.outputs)
Parameters == OrEmptyList(call.parameters)

NamesOf(specs) == {specs[k].name : k \in 1..Len(specs)}

\* The last descriptor of the list that carries name n.
LastOf(specs, n) ==
  specs[CHOOSE k \in 1..Len(specs) :
          /\ specs[k].name = n
          /\ \A j \in (k + 1)..Len(specs) : specs[j].name # n]

IsOptional(e) == e.optional

OptionalInputs == SelectSeq(Inputs, IsOptional)

RequiredInputNames == {Inputs[k].name : k \in {j \in 1..Len(Inputs) : ~Inputs[j].optional}}

\* ref is a channel object of the type wrapping exactly one artifact object
\* of the type.
IsEmptyArtifactChannel(ref, type) ==
  /\ ref.owner = "factory"
  /\ ref.id \in 1..Len(heap)
  /\ heap[ref.id].type = type
  /\ Len(heap[ref.id].artifacts) = 1
  /\ heap[ref.id].artifacts[1].type = type

\* The default channel objects a generated class holds.
DefaultChannels(cls) ==
  {cls.default_input_channels[n] : n \in DOMAIN cls.default_input_channels}
    \cup {cls.output_channels[n] : n \in DOMAIN cls.output_channels}

DefaultedNames(cls) ==
  DOMAIN cls.default_input_channels \cup DOMAIN cls.output_channels

\* No name is carried by two descriptors, and none is the reserved key.
NoNameClash ==
  /\ Cardinality(NamesOf(Inputs) \cup NamesOf(Outputs) \cup NamesOf(Parameters))
       = Len(Inputs) + Len(Outputs) + Len(Parameters)
  /\ "instance_name" \notin
       NamesOf(Inputs) \cup NamesOf(Outputs) \cup NamesOf(Parameters)

Classes == 1..Len(components)
Instances == 1..Len(instances)

----------------------------------------------------------------------------
(* C1 *)

\* C1 as stated, in its consequence for the names that have a default: such
\* a name is among the merged arguments, with the caller's value when the
\* caller supplies the name, and otherwise with the default (the output
\* default before the input default).
C1_Original ==
  \A i \in Instances :
    LET cls == components[instances[i].cls]
        kw == instances[i].kwargs
        args == instances[i].arguments
    IN \A n \in DefaultedNames(cls) :
         /\ n \in DOMAIN args
         /\ args[n] = IF n \in DOMAIN kw THEN kw[n]
                      ELSE IF n \in DOMAIN cls.output_channels
                           THEN cls.output_channels[n]
                           ELSE cls.default_input_channels[n]

\* C1 (amended): the arguments handed to the specification constructor are
\* the merge of the default input channels, then the default output
\* channels, then the caller's keyword arguments other than instance_name,
\* the later source winning: a key the caller supplies (other than
\* instance_name) carries the caller's value; any other key with an output
\* default carries it; any other key with an input default carries that; no
\* other key is present.  The base initialization, when reached, receives a
\* specification built from exactly these arguments.
C1_MergeOrder ==
  \A i \in Instances :
    LET cls == components[instances[i].cls]
        kw == instances[i].kwargs
        args == instances[i].arguments
        supplied == DOMAIN kw \ {"instance_name"}
    IN /\ DOMAIN args =
            DOMAIN cls.default_input_channels \cup DOMAIN cls.output_channels
              \cup supplied
       /\ \A n \in DOMAIN args :
            args[n] = IF n \in supplied THEN kw[n]
                      ELSE IF n \in DOMAIN cls.output_channels
                           THEN cls.output_channels[n]
                           ELSE cls.default_input_channels[n]
       /\ instances[i].constructed =>
            instances[i].base_init[1].spec = args

\* A caller's value overrides a default, and an output default overrides an
\* input default of the same name.
C1_Witness ==
  \E i \in Instances :
    LET cls == components[instances[i].cls]
    IN \E n \in DOMAIN cls.default_input_channels \cap DOMAIN cls.output_channels :
         /\ n # "instance_name"
         /\ n \in DOMAIN instances[i].kwargs
         /\ instances[i].arguments[n] = CallerValue
         /\ instances[i].constructed

----------------------------------------------------------------------------
(* C2 *)

\* C2 as stated: every entry of inputs has a declaration under its name, and
\* an optional entry has a default channel under its name wrapping exactly
\* one empty artifact of the type declared for that name.
C2_Original ==
  \A c \in Classes :
    \A k \in 1..Len(Inputs) :
      LET e == Inputs[k]
          cls == components[c]
      IN /\ e.name \in DOMAIN cls.SPEC_CLASS.INPUTS
         /\ e.optional =>
              /\ e.name \in DOMAIN cls.default_input_channels
              /\ IsEmptyArtifactChannel(cls.default_input_channels[e.name],
                                        cls.SPEC_CLASS.INPUTS[e.name].type)

\* C2 (amended): the input declarations are keyed by exactly the names of
\* the entries, each of the type of the last entry with that name; a default
\* input channel exists under exactly the names of the optional entries and
\* wraps exactly one empty artifact of the type of the last optional entry
\* with that name, which is the declared type whenever the last entry with
\* that name is optional (so whenever no name is repeated).
C2_InputDeclarations ==
  \A c \in Classes :
    LET cls == components[c]
    IN /\ DOMAIN cls.SPEC_CLASS.INPUTS = NamesOf(Inputs)
       /\ \A n \in NamesOf(Inputs) :
            cls.SPEC_CLASS.INPUTS[n] = ChannelParameter(LastOf(Inputs, n).type)
       /\ DOMAIN cls.default_input_channels = NamesOf(OptionalInputs)
       /\ \A n \in NamesOf(OptionalInputs) :
            /\ IsEmptyArtifactChannel(cls.default_input_channels[n],
                                      LastOf(OptionalInputs, n).type)
            /\ LastOf(Inputs, n).optional =>
                 IsEmptyArtifactChannel(cls.default_input_channels[n],
                                        cls.SPEC_CLASS.INPUTS[n].type)

\* A repeated name: an optional entry followed by a required entry of
\* another type, and an optional entry that is the only one of its name.
C2_Witness ==
  /\ components # <<>>
  /\ Len(Inputs) = 2
  /\ Inputs[1].optional
  /\ \/ /\ Inputs[1].name = Inputs[2].name
        /\ ~Inputs[2].optional
        /\ Inputs[1].type # Inputs[2].type
        /\ IsEmptyArtifactChannel(
             components[1].default_input_channels[Inputs[1].name], Inputs[1].type)
     \/ /\ Inputs[1].name # Inputs[2].name
        /\ IsEmptyArtifactChannel(
             components[1].default_input_channels[Inputs[1].name],
             components[1].SPEC_CLASS.INPUTS[Inputs[1].name].type)

----------------------------------------------------------------------------
(* C3 *)

\* C3: every entry of outputs has an output declaration under its name and
\* a default output channel wrapping exactly one empty artifact of the
\* declared type, whatever else the entry says; the default output channels
\* and the output declarations have the same keys, and no two names share a
\* channel object.
C3_OutputDefaults ==
  \A c \in Classes :
    LET cls == components[c]
    IN /\ DOMAIN cls.SPEC_CLASS.OUTPUTS = NamesOf(Outputs)
       /\ DOMAIN cls.output_channels = DOMAIN cls.SPEC_CLASS.OUTPUTS
       /\ \A k \in 1..Len(Outputs) :
            /\ Outputs[k].name \in DOMAIN cls.SPEC_CLASS.OUTPUTS
            /\ Outputs[k].name \in DOMAIN cls.output_channels
       /\ \A n \in DOMAIN cls.output_channels :
            /\ cls.SPEC_CLASS.OUTPUTS[n] = ChannelParameter(LastOf(Outputs, n).type)
            /\ IsEmptyArtifactChannel(cls.output_channels[n],
                                      cls.SPEC_CLASS.OUTPUTS[n].type)
       /\ \A n, m \in DOMAIN cls.output_channels :
            n # m => cls.output_channels[n] # cls.output_channels[m]

\* Two outputs of one name and two types; two outputs of two names.
C3_Witness ==
  /\ components # <<>>
  /\ Len(Outputs) = 2
  /\ Outputs[1].type # Outputs[2].type
  /\ DOMAIN components[1].output_channels = NamesOf(Outputs)

----------------------------------------------------------------------------
(* C4 *)

\* C4: every entry of parameters has an execution-parameter declaration
\* under its name and gets no default: the default dictionaries hold only
\* names of optional inputs and of outputs, and a parameter name is among
\* the merged arguments of an instantiation only when the caller supplied it
\* or the name is also that of an optional input or of an output.
C4_ParametersNoDefault ==
  /\ \A c \in Classes :
       LET cls == components[c]
       IN /\ DOMAIN cls.SPEC_CLASS.PARAMETERS = NamesOf(Parameters)
          /\ \A n \in NamesOf(Parameters) :
               cls.SPEC_CLASS.PARAMETERS[n] =
                 ExecutionParameter(LastOf(Parameters, n).type)
          /\ DefaultedNames(cls) \subseteq
               NamesOf(OptionalInputs) \cup NamesOf(Outputs)
  /\ \A i \in Instances :
       \A n \in NamesOf(Parameters) :
         n \in DOMAIN instances[i].arguments =>
           \/ n \in DOMAIN instances[i].kwargs
           \/ n \in NamesOf(OptionalInputs) \cup NamesOf(Outputs)

\* A parameter, flagged optional, that the caller omits: it is not among the
\* arguments; and one the caller supplies is.
C4_Witness ==
  \E i \in Instances :
    /\ Len(Parameters) = 2
    /\ Parameters[1].optional
    /\ Parameters[1].name \notin DOMAIN instances[i].arguments
    /\ Parameters[2].name \in DOMAIN instances[i].arguments
    /\ instances[i].arguments[Parameters[2].name] = CallerValue

----------------------------------------------------------------------------
(* C5 *)

\* C5: the specification class carries exactly the three accumulated maps
\* (the names of the parameters, inputs and outputs lists, each name with a
\* declaration of the type of its last descriptor); a list that is None or
\* empty gives an empty map; the generated class is bound to that
\* specification class, named after it, and to an executor specification
\* with the image and the command as given.
C5_GeneratedDefinitions ==
  \A c \in Classes :
    LET cls == components[c]
        sc == cls.SPEC_CLASS
    IN /\ sc.PARAMETERS =
            [n \in NamesOf(Parameters) |->
               ExecutionParameter(LastOf(Parameters, n).type)]
       /\ sc.INPUTS =
            [n \in NamesOf(Inputs) |-> ChannelParameter(LastOf(Inputs, n).type)]
       /\ sc.OUTPUTS =
            [n \in NamesOf(Outputs) |-> ChannelParameter(LastOf(Outputs, n).type)]
       /\ call.parameters \in {None, Some(<<>>)} => DOMAIN sc.PARAMETERS = {}
       /\ call.inputs \in {None, Some(<<>>)} => DOMAIN sc.INPUTS = {}
       /\ call.outputs \in {None, Some(<<>>)} => DOMAIN sc.OUTPUTS = {}
       /\ sc.name = cls.name \o SpecSuffix
       /\ cls.EXECUTOR_SPEC.image = call.image
       /\ cls.EXECUTOR_SPEC.command = call.command

\* inputs is None, outputs holds an entry, parameters is the empty list.
C5_Witness ==
  /\ components # <<>>
  /\ call.inputs = None
  /\ call.parameters = Some(<<>>)
  /\ Len(Outputs) = 2
  /\ DOMAIN components[1].SPEC_CLASS.INPUTS = {}
  /\ DOMAIN components[1].SPEC_CLASS.OUTPUTS # {}
  /\ components[1].EXECUTOR_SPEC.image = "gcr.io/my-project/my-trainer"

----------------------------------------------------------------------------
(* C7 *)

\* C7 as stated: the generated class is named by the name argument, as given.
C7_Original ==
  \A c \in Classes : components[c].name = call.name

\* C7 (amended): a non-empty name is the generated class's name as given,
\* character for character; the empty name is replaced by 'Component'; the
\* specification class is named by the class name followed by 'Spec'.
C7_NameVerbatim ==
  \A c \in Classes :
    /\ call.name # <<>> => components[c].name = call.name
    /\ call.name = <<>> => components[c].name = DefaultComponentName
    /\ components[c].SPEC_CLASS.name = components[c].name \o SpecSuffix

\* A name with a character no identifier holds is kept.
C7_Witness ==
  /\ components # <<>>
  /\ call.name = <<"T", "-", "1">>
  /\ components[1].name = <<"T", "-", "1">>
  /\ components[1].SPEC_CLASS.name = <<"T", "-", "1", "S", "p", "e", "c">>

----------------------------------------------------------------------------
(* C8 *)

----------------------------------------------------------------------------
(* C10 *)

\* C10: instance_name is taken out of the caller's keyword arguments before
\* the merge and goes only to the base initialization (None when the caller
\* gave none); among the merged arguments instance_name is present only
\* through an input or output default, and then carries that default, never
\* the caller's value.
C10_InstanceNamePopped ==
  \A i \in Instances :
    LET cls == components[instances[i].cls]
        kw == instances[i].kwargs
        args == instances[i].arguments
    IN /\ instances[i].constructed =>
            instances[i].base_init[1].instance_name =
              (IF "instance_name" \in DOMAIN kw
               THEN Some(kw["instance_name"]) ELSE None)
       /\ "instance_name" \in DOMAIN args =>
            /\ "instance_name" \in DefaultedNames(cls)
            /\ args["instance_name"] \in DefaultChannels(cls)
            /\ args["instance_name"] # CallerValue
       /\ "instance_name" \notin DefaultedNames(cls) =>
            "instance_name" \notin DOMAIN args

\* A descriptor named instance_name that has a default, and a caller that
\* supplies instance_name: the caller's value goes to the base
\* initialization and the specification receives the default.
C10_Witness ==
  \E i \in Instances :
    /\ "instance_name" \in DOMAIN instances[i].kwargs
    /\ "instance_name" \in DefaultedNames(components[instances[i].cls])
    /\ instances[i].constructed
    /\ instances[i].base_init[1].instance_name = Some(CallerValue)
    /\ instances[i].arguments["instance_name"] # CallerValue

----------------------------------------------------------------------------
(* C6 *)

\* C6: two factory calls with the same arguments give two classes with
\* equal declaration maps, executor specification and names, whose default
\* channels are under the same names and of the same types but are
\* different objects, each still an unaltered empty-artifact channel after
\* the other call; both classes still agree with the caller's lists; and
\* instantiated with the same keyword arguments the two classes get the same
\* argument keys and both succeed or both fail.
C6_IndependentCalls ==
  \A c1, c2 \in Classes :
    c1 # c2 =>
      LET a == components[c1]
          b == components[c2]
      IN /\ a.SPEC_CLASS = b.SPEC_CLASS
         /\ a.EXECUTOR_SPEC = b.EXECUTOR_SPEC
         /\ a.name = b.name
         /\ DOMAIN a.SPEC_CLASS.INPUTS = NamesOf(Inputs)
         /\ DOMAIN a.SPEC_CLASS.OUTPUTS = NamesOf(Outputs)
         /\ DOMAIN a.SPEC_CLASS.PARAMETERS = NamesOf(Parameters)
         /\ DOMAIN a.default_input_channels = DOMAIN b.default_input_channels
         /\ DOMAIN a.output_channels = DOMAIN b.output_channels
         /\ DefaultChannels(a) \cap DefaultChannels(b) = {}
         /\ \A n \in DOMAIN a.default_input_channels :
              /\ IsEmptyArtifactChannel(a.default_input_channels[n],
                                        LastOf(OptionalInputs, n).type)
              /\ heap[a.default_input_channels[n].id] =
                   heap[b.default_input_channels[n].id]
         /\ \A n \in DOMAIN a.output_channels :
              /\ IsEmptyArtifactChannel(a.output_channels[n],
                                        LastOf(Outputs, n).type)
              /\ heap[a.output_channels[n].id] = heap[b.output_channels[n].id]
         /\ \A i, j \in Instances :
              ( /\ instances[i].cls = c1
                /\ instances[j].cls = c2
                /\ instances[i].kwargs = instances[j].kwargs ) =>
                /\ DOMAIN instances[i].arguments = DOMAIN instances[j].arguments
                /\ instances[i].constructed = instances[j].constructed

\* Two classes with a default channel each, instantiated alike.
C6_Witness ==
  /\ Len(components) = 2
  /\ DefaultChannels(components[1]) # {}
  /\ \E i, j \in Instances :
       /\ instances[i].cls = 1
       /\ instances[j].cls = 2
       /\ instances[i].kwargs = instances[j].kwargs
       /\ instances[i].constructed

----------------------------------------------------------------------------
(* C9 *)

\* C9: channels are created by factory calls only, one per optional input
\* entry and one per output entry of each call, none by an instantiation;
\* for a name with a default that the caller omits, every instance of a
\* class receives the one default channel object the class holds, so all
\* such instances see the same object; two classes hold no default channel
\* object in common.
C9_DefaultsSharedPerCall ==
  /\ Len(heap) = Len(components) * (Len(OptionalInputs) + Len(Outputs))
  /\ \A i, j \in Instances :
       instances[i].cls = instances[j].cls =>
         LET cls == components[instances[i].cls]
         IN \A n \in DefaultedNames(cls) :
              (n \notin DOMAIN instances[i].kwargs /\ n \notin DOMAIN instances[j].kwargs)
                => /\ instances[i].arguments[n] = instances[j].arguments[n]
                   /\ instances[i].arguments[n] \in DefaultChannels(cls)
                   /\ instances[i].arguments[n].id \in 1..Len(heap)
  /\ \A c1, c2 \in Classes :
       c1 # c2 =>
         DefaultChannels(components[c1]) \cap DefaultChannels(components[c2]) = {}

\* Two instances of one class that both omit a defaulted name, and a second
\* class with its own default channel.
C9_Witness ==
  /\ Len(components) = 2
  /\ DefaultChannels(components[2]) # {}
  /\ Len(instances) = 2
  /\ instances[1].cls = 1
  /\ instances[2].cls = 1
  /\ \E n \in DefaultedNames(components[1]) :
       /\ n \notin DOMAIN instances[1].kwargs
       /\ n \notin DOMAIN instances[2].kwargs
       /\ instances[1].arguments[n] = instances[2].arguments[n]

====
